---- MODULE Spec2Model ----
(* Verification model of the decode engine of parquet2:                    *)
(*   src/src/encoding/bit_packed.rs   BIT_PACKED block decoder             *)
(*   src/src/deserialize/utils.rs     DefLevelsDecoder, OptionalValues,    *)
(*                                    SliceFilteredIter                    *)
(* A u32 is held as its 4 big-endian bytes, so that every value of the     *)
(* full 32-bit range is representable.                                     *)
EXTENDS Integers, Sequences, FiniteSets, TLC

VARIABLES
    overflow_checks,   \* build profile: TRUE = arithmetic overflow panics (debug/test)
    unpack,            \* locals of one run of decompress (bit_packed.rs 12-52)
    decoder,           \* bit_packed::Decoder and what its calls returned
    slice,             \* SliceFilteredIter over a source, and what its calls returned
    optional,          \* OptionalValues over validity and values, and what it returned
    deflevels          \* DefLevelsDecoder built from a page

vars == <<overflow_checks, unpack, decoder, slice, optional, deflevels>>

-----------------------------------------------------------------------------
(* Bounds of the model *)

\* longest byte buffer handed to bit_packed::Decoder::new
MaxBufLen == 9
\* calls of next made after an iterator returned None for the first time
MaxExtraCalls == 2

-----------------------------------------------------------------------------
(* 32-bit registers *)

BLOCK_LEN == 32
\* width of a u32 register in bits
U32_BITS == 32
\* std::mem::size_of::<u32>()
U32_BYTES == 4

Idle == [phase |-> "idle"]

Min(a, b) == IF a <= b THEN a ELSE b

Pow2(k) == <<1, 2, 4, 8, 16, 32, 64, 128, 256>>[k + 1]

\* bit k (0 = most significant) of the byte b
ByteBit(b, k) == (b \div Pow2(7 - k)) % 2

\* a & b and a | b of two bytes
RECURSIVE ByteAnd(_, _)
ByteAnd(a, b) ==
    IF a = 0 \/ b = 0 THEN 0
    ELSE 2 * ByteAnd(a \div 2, b \div 2) + (IF a % 2 = 1 /\ b % 2 = 1 THEN 1 ELSE 0)

ByteOr(a, b) == a + b - ByteAnd(a, b)

\* A u32 is held as its 4 big-endian bytes (index 1 = most significant byte).
\* the u32 whose bit i (0 = most significant) is f[i], for f a function on 0..31
FromBits(f) ==
    [j \in 1..U32_BYTES |->
        f[8 * j - 8] * 128 + f[8 * j - 7] * 64 + f[8 * j - 6] * 32 + f[8 * j - 5] * 16
        + f[8 * j - 4] * 8 + f[8 * j - 3] * 4 + f[8 * j - 2] * 2 + f[8 * j - 1]]

ZeroU32 == <<0, 0, 0, 0>>

\* !0u32
AllOnesU32 == <<255, 255, 255, 255>>

\* byte k of x, zero outside the register
ByteOf(x, k) == IF k >= 1 /\ k <= U32_BYTES THEN x[k] ELSE 0

\* x << s and x >> s for an in-range amount 0 <= s < 32: whole bytes move by
\* s \div 8 places, and each byte takes the s % 8 bits its neighbour passes on
ShlBits(x, s) ==
    [j \in 1..U32_BYTES |->
        ((ByteOf(x, j + (s \div 8)) * Pow2(s % 8)) % 256)
        + (ByteOf(x, j + (s \div 8) + 1) \div Pow2(8 - (s % 8)))]

ShrBits(x, s) ==
    [j \in 1..U32_BYTES |->
        (ByteOf(x, j - (s \div 8)) \div Pow2(s % 8))
        + ((ByteOf(x, j - (s \div 8) - 1) * Pow2(8 - (s % 8))) % 256)]

BitOr(x, y) == [j \in 1..U32_BYTES |-> ByteOr(x[j], y[j])]

BitAnd(x, y) == [j \in 1..U32_BYTES |-> ByteAnd(x[j], y[j])]

\* The native shifts of a u32. An amount >= 32 is an arithmetic overflow: with
\* overflow checks the operation panics, without them the amount wraps (s % 32).
ShiftOverflows(s) == s >= U32_BITS

NativeShl(x, s) == ShlBits(x, s % U32_BITS)

NativeShr(x, s) == ShrBits(x, s % U32_BITS)

\* u32::from_be_bytes of the 4 bytes of `bytes` starting at (1-based) index k
FromBeBytes(bytes, k) == <<bytes[k], bytes[k + 1], bytes[k + 2], bytes[k + 3]>>

saturating_shl(next_pack, shift) ==
    IF shift = 32 THEN ZeroU32 ELSE NativeShl(next_pack, shift)

-----------------------------------------------------------------------------
(* decompress: bit_packed.rs 12-52 *)

\* packs: compressed.windows(4).map(from_be_bytes); the k-th item (1-based) of the
\* iterator, None (here: unwrap_or(0)) once the windows are exhausted
PacksItem(compressed, k) ==
    IF k + U32_BYTES - 1 <= Len(compressed) THEN FromBeBytes(compressed, k) ELSE ZeroU32

\* the locals of decompress before the for_each loop (lines 13-31)
DecompressEntry(compressed, num_bits, checks) ==
    [ phase          |-> IF checks /\ ShiftOverflows(32 - num_bits) THEN "panicked" ELSE "loop",
      compressed     |-> compressed,
      num_bits       |-> num_bits,
      mask           |-> NativeShl(AllOnesU32, 32 - num_bits),
      packs_taken    |-> 2,
      current_pack   |-> PacksItem(compressed, 1),
      next_pack      |-> PacksItem(compressed, 2),
      next_next_pack |-> ZeroU32,
      remaining_bits |-> 32,
      load_next      |-> TRUE,
      decompressed   |-> <<>>,
      native_overflow |-> ShiftOverflows(32 - num_bits) ]

\* the refill branch of the closure (lines 33-46)
Refill(st) ==
    LET rb   == st.remaining_bits
        cur  == BitOr(st.current_pack, NativeShr(st.next_pack, rb))
        np   == saturating_shl(st.next_pack, 32 - rb)
        nnp  == PacksItem(st.compressed, st.packs_taken + 1)
    IN  IF st.load_next
        THEN [st EXCEPT !.current_pack   = cur,
                        !.packs_taken    = st.packs_taken + 1,
                        !.next_pack      = BitOr(np, NativeShr(nnp, rb)),
                        !.next_next_pack = saturating_shl(nnp, 32 - rb),
                        !.remaining_bits = 32,
                        !.load_next      = FALSE,
                        !.native_overflow = st.native_overflow \/ ShiftOverflows(rb)]
        ELSE [st EXCEPT !.current_pack   = cur,
                        !.next_pack      = BitOr(np, NativeShr(st.next_next_pack, rb)),
                        !.remaining_bits = 32,
                        !.load_next      = TRUE,
                        !.native_overflow = st.native_overflow \/ ShiftOverflows(rb)]

\* one call of the for_each closure (lines 32-51): one value of the block
DecompressStep(st0, checks) ==
    LET w  == st0.num_bits
        st == IF st0.remaining_bits < w THEN Refill(st0) ELSE st0
        a  == BitAnd(st.current_pack, st.mask)
        ov == ShiftOverflows(w) \/ ShiftOverflows(32 - w)
    IN  IF checks /\ (st.native_overflow \/ ov)
        THEN [st EXCEPT !.phase = "panicked", !.native_overflow = TRUE]
        ELSE [st EXCEPT !.current_pack   = NativeShl(st.current_pack, w),
                        !.decompressed   = Append(st.decompressed, NativeShr(a, 32 - w)),
                        !.remaining_bits = st.remaining_bits - w,
                        !.native_overflow = st.native_overflow \/ ov,
                        !.phase = IF Len(st.decompressed) + 1 = BLOCK_LEN
                                  THEN "done" ELSE "loop"]

RECURSIVE DecompressLoop(_, _)
DecompressLoop(st, checks) ==
    IF st.phase = "loop" THEN DecompressLoop(DecompressStep(st, checks), checks) ELSE st

\* decompress(compressed, decompressed, num_bits): the final locals; .decompressed
\* is the block written, .phase = "panicked" when a shift overflow aborted it
decompress(compressed, num_bits, checks) ==
    DecompressLoop(DecompressEntry(compressed, num_bits, checks), checks)

\* decode_pack (bit_packed.rs 54-64): the slice it hands to decompress, the chunk
\* itself or, for a chunk shorter than a block, a zeroed 128-byte copy of it
DecodePackInput(compressed, num_bits) ==
    LET compressed_block_size == (BLOCK_LEN * num_bits) \div 8
        buf == [i \in 1..(BLOCK_LEN * U32_BYTES) |->
                   IF i <= Len(compressed) THEN compressed[i] ELSE 0]
    IN  IF Len(compressed) < compressed_block_size THEN buf ELSE compressed

decode_pack(compressed, num_bits, checks) ==
    decompress(DecodePackInput(compressed, num_bits), num_bits, checks)

-----------------------------------------------------------------------------
(* Inputs of the bit-packed decoder *)

\* the bytes of decode_small / decode_large (bit_packed.rs 139), repeated
FixtureBytes == <<5, 57, 119>>

\* byte i (1-based) of the buffer of pattern p
PatternByte(p, i) == IF p = 1 THEN FixtureBytes[((i - 1) % 3) + 1] ELSE (i * 37) % 256

Buffer(p, len) == [i \in 1..len |-> PatternByte(p, i)]

Buffers == {Buffer(p, len) : p \in {1, 2}, len \in 0..MaxBufLen}

BitWidths == 0..32

\* compressed.chunks(size): the number of chunks of a buffer
NumChunks(compressed, size) == (Len(compressed) + size - 1) \div size

\* declared lengths tried for a buffer of c chunks: none, a few, all the values
\* its chunks hold, and one more than they hold
DeclaredLengths(c) == {0, 1, 8, BLOCK_LEN * c, BLOCK_LEN * c + 1}

-----------------------------------------------------------------------------
(* One run of decompress, a value at a time *)

\* decode_pack(chunk, num_bits, ..) enters decompress (lines 57-63 and 13-31)
UnpackEnter ==
    /\ unpack.phase = "start"
    /\ \E compressed \in Buffers \ {<<>>}, num_bits \in 1..32 :
          LET size  == (BLOCK_LEN * num_bits) \div 8
              chunk == SubSeq(compressed, 1, Min(size, Len(compressed)))
          IN  unpack' = DecompressEntry(DecodePackInput(chunk, num_bits),
                                        num_bits, overflow_checks)
    /\ UNCHANGED <<overflow_checks, decoder, slice, optional, deflevels>>

\* one call of the closure of decompressed.iter_mut().for_each (lines 32-51)
UnpackStep ==
    /\ unpack.phase = "loop"
    /\ unpack' = DecompressStep(unpack, overflow_checks)
    /\ UNCHANGED <<overflow_checks, decoder, slice, optional, deflevels>>

InitDecompress ==
    /\ overflow_checks \in BOOLEAN
    /\ unpack = [phase |-> "start"]
    /\ decoder = Idle
    /\ slice = Idle
    /\ optional = Idle
    /\ deflevels = Idle

NextDecompress == UnpackEnter \/ UnpackStep

SpecDecompress == InitDecompress /\ [][NextDecompress]_vars

-----------------------------------------------------------------------------
(* bit_packed::Decoder: bit_packed.rs 68-120 *)

\* the chunk compressed_chunks.next() returns after `pos` bytes were handed out
ChunkAt(compressed, size, pos) == SubSeq(compressed, pos + 1, Min(pos + size, Len(compressed)))

\* Decoder::new (lines 77-95); .phase = "panicked" when the constructor panics
DecoderNew(compressed, num_bits, length, checks) ==
    LET compressed_block_size == (BLOCK_LEN * num_bits) \div 8
        args  == [compressed |-> compressed, num_bits |-> num_bits, length |-> length]
        chunk == ChunkAt(compressed, compressed_block_size, 0)
        pack  == decode_pack(chunk, num_bits, checks)
    IN  IF compressed_block_size = 0
        THEN [phase |-> "panicked", args |-> args, cause |-> "chunk size must be non-zero",
              yielded |-> <<>>]
        ELSE IF Len(compressed) = 0
        THEN [phase |-> "panicked", args |-> args, cause |-> "unwrap on None",
              yielded |-> <<>>]
        ELSE IF pack.phase = "panicked"
        THEN [phase |-> "panicked", args |-> args, cause |-> "shift with overflow",
              yielded |-> <<>>]
        ELSE [phase              |-> "ready",
              args               |-> args,
              chunk_size         |-> compressed_block_size,
              chunks_pos         |-> Len(chunk),
              num_bits           |-> num_bits,
              remaining          |-> length,
              current_pack_index |-> 0,
              current_pack       |-> pack.decompressed,
              yielded            |-> <<>>,
              nones              |-> 0]

\* Decoder::next (lines 101-115) on a constructed decoder
DecoderNext(d, checks) ==
    LET index == d.current_pack_index + 1
        more  == d.chunks_pos < Len(d.args.compressed)
        chunk == ChunkAt(d.args.compressed, d.chunk_size, d.chunks_pos)
        pack  == decode_pack(chunk, d.num_bits, checks)
    IN  IF d.remaining = 0
        THEN [d EXCEPT !.nones = d.nones + 1]
        ELSE IF d.current_pack_index >= BLOCK_LEN
        THEN [phase |-> "panicked", args |-> d.args, cause |-> "index out of bounds",
              yielded |-> d.yielded]
        ELSE IF index = BLOCK_LEN /\ more
        THEN IF pack.phase = "panicked"
             THEN [phase |-> "panicked", args |-> d.args, cause |-> "shift with overflow",
                   yielded |-> d.yielded]
             ELSE [d EXCEPT !.current_pack       = pack.decompressed,
                            !.current_pack_index = 0,
                            !.chunks_pos         = d.chunks_pos + Len(chunk),
                            !.remaining          = d.remaining - 1,
                            !.yielded = Append(d.yielded, d.current_pack[index])]
        ELSE [d EXCEPT !.current_pack_index = index,
                       !.remaining          = d.remaining - 1,
                       !.yielded = Append(d.yielded, d.current_pack[index])]

\* Decoder::size_hint (lines 117-119): (lower, Some(upper))
DecoderSizeHint(d) == <<d.remaining, d.remaining>>

BitPackedDecoderNew ==
    /\ decoder.phase = "start"
    /\ \E compressed \in Buffers, num_bits \in BitWidths :
          \E length \in DeclaredLengths(
                 IF num_bits = 0 THEN 0 ELSE NumChunks(compressed, 4 * num_bits)) :
             decoder' = DecoderNew(compressed, num_bits, length, overflow_checks)
    /\ UNCHANGED <<overflow_checks, unpack, slice, optional, deflevels>>

BitPackedDecoderNext ==
    /\ decoder.phase = "ready"
    /\ decoder.nones <= MaxExtraCalls
    /\ decoder' = DecoderNext(decoder, overflow_checks)
    /\ UNCHANGED <<overflow_checks, unpack, slice, optional, deflevels>>

InitDecoder ==
    /\ overflow_checks \in BOOLEAN
    /\ unpack = Idle
    /\ decoder = [phase |-> "start"]
    /\ slice = Idle
    /\ optional = Idle
    /\ deflevels = Idle

NextDecoder == BitPackedDecoderNew \/ BitPackedDecoderNext

SpecDecoder == InitDecoder /\ [][NextDecoder]_vars

-----------------------------------------------------------------------------
(* Claims about the bit-packed decoder *)

\* bit j (0-based, most significant bit of byte 0 first) of the buffer; every bit
\* past the end of the buffer is zero
PackedBit(compressed, j) ==
    IF j \div 8 < Len(compressed) THEN ByteBit(compressed[(j \div 8) + 1], j % 8) ELSE 0

\* the unsigned integer formed by the w bits at bit offset i * w (i 0-based)
PackedValue(compressed, w, i) ==
    FromBits([k \in 0..(U32_BITS - 1) |->
                 IF k < U32_BITS - w THEN 0
                 ELSE PackedBit(compressed, i * w + k - (U32_BITS - w))])

\* non-empty buffer, bit width 1..=32, at most 32 values declared per chunk
ValidDecoderInput(args) ==
    /\ Len(args.compressed) > 0
    /\ args.num_bits \in 1..32
    /\ args.length <= BLOCK_LEN * NumChunks(args.compressed, 4 * args.num_bits)

\* C1: for a valid input, the i-th value the decoder yields is the unsigned integer
\* formed by the w bits at bit offset i*w of the buffer, most significant bit
\* first, bits past the end of the buffer being zero.
C1_YieldsPackedValues ==
    (decoder.phase # "start" /\ ValidDecoderInput(decoder.args)) =>
        \A i \in 1..Len(decoder.yielded) :
            decoder.yielded[i] =
                PackedValue(decoder.args.compressed, decoder.args.num_bits, i - 1)

\* C4: for a valid input the decoder is constructed, has returned k items with
\* size_hint (n - k, Some(n - k)), and returns None only after n items.
C4_ExactlyLengthItems ==
    (decoder.phase # "start" /\ ValidDecoderInput(decoder.args)) =>
        /\ decoder.phase = "ready"
        /\ Len(decoder.yielded) <= decoder.args.length
        /\ DecoderSizeHint(decoder) =
               <<decoder.args.length - Len(decoder.yielded),
                 decoder.args.length - Len(decoder.yielded)>>
        /\ (decoder.nones > 0 => Len(decoder.yielded) = decoder.args.length)

\* C6: over an empty buffer with declared length 0 and a bit width in 1..=32 the
\* constructor gives a decoder that is exhausted at once: size_hint (0, Some(0)),
\* no item.
C6_EmptyBufferIsExhaustedDecoder ==
    (/\ decoder.phase # "start"
     /\ Len(decoder.args.compressed) = 0
     /\ decoder.args.length = 0
     /\ decoder.args.num_bits \in 1..32) =>
        /\ decoder.phase = "ready"
        /\ DecoderSizeHint(decoder) = <<0, 0>>
        /\ decoder.yielded = <<>>

\* C7: with bit width 0 the constructor succeeds for every buffer and declared
\* length n, and the decoder yields n values, all zero.
C7_BitWidthZeroAccepted ==
    (decoder.phase # "start" /\ decoder.args.num_bits = 0) =>
        /\ decoder.phase = "ready"
        /\ \A i \in 1..Len(decoder.yielded) : decoder.yielded[i] = ZeroU32
        /\ (decoder.nones > 0 => Len(decoder.yielded) = decoder.args.length)

\* C9: in every state of a constructed decoder current_pack_index < BLOCK_LEN, and
\* next never indexes current_pack out of bounds.
C9_PackIndexBelowBlockLen ==
    /\ decoder.phase = "ready" => decoder.current_pack_index < BLOCK_LEN
    /\ decoder.phase = "panicked" => decoder.cause # "index out of bounds"

\* C10: while a block is unpacked (bit width 1..=32) no native shift has an amount
\* of 32 or more, and for bit width 32 the current register is 0 after each
\* extracted value.
C10_NoShiftByRegisterWidth ==
    unpack.phase # "start" =>
        /\ ~unpack.native_overflow
        /\ unpack.remaining_bits \in 0..32
        /\ (unpack.num_bits = 32 /\ Len(unpack.decompressed) > 0
              => unpack.current_pack = ZeroU32)

-----------------------------------------------------------------------------
(* SliceFilteredIter: utils.rs 87-139 *)

\* longest source sequence
MaxSourceLen == 5
\* most intervals in a selection
MaxIntervals == 3

\* the source S: the item at (0-based) position i is 100 + i
Source(len) == [i \in 1..len |-> 100 + (i - 1)]

IntervalLengths == {1, 2, 3}

\* Interval { start, length }
Interval(start, length) == [start |-> start, length |-> length]

\* selections over a source of n items: up to MaxIntervals intervals with strictly
\* ascending starts; they may overlap or reach past the end of the source
RECURSIVE SelectionsFrom(_, _, _)
SelectionsFrom(lo, n, k) ==
    IF k = 0 THEN {<<>>}
    ELSE {<<>>} \cup
         UNION {{<<Interval(st, ln)>> \o rest : rest \in SelectionsFrom(st + 1, n, k - 1)} :
                    st \in lo..n, ln \in IntervalLengths}

RECURSIVE SumLengths(_)
SumLengths(rows) == IF rows = <<>> THEN 0 ELSE Head(rows).length + SumLengths(Tail(rows))

\* SliceFilteredIter::new (lines 97-106) over a fresh iterator of `source`
SliceNew(source, selected_rows) ==
    [phase             |-> "ready",
     source            |-> source,
     selection         |-> selected_rows,
     iter_pos          |-> 0,
     selected_rows     |-> selected_rows,
     total             |-> SumLengths(selected_rows),
     current_remaining |-> 0,
     current           |-> 0,
     emitted           |-> <<>>,
     nones             |-> 0]

\* the hole skipped before an interval: interval.start - self.current (line 118)
HoleFromZero(interval, current) == interval.start

Hole(interval, current) == interval.start - current

\* self.total -= 1 (lines 121 and 128)
TotalKept(total) == total

TotalAfterItem(total) == total - 1

\* the iterator after its call returned `item` ("None" or <<x>>)
Returned(s, item) ==
    IF item = "None" THEN [s EXCEPT !.nones = s.nones + 1]
    ELSE [s EXCEPT !.emitted = Append(s.emitted, item[1])]

\* self.iter.nth(n) on the source: n items are skipped, the next one is returned;
\* a usize that wrapped below zero skips past every item
IterNth(s, n) ==
    IF n >= 0 /\ s.iter_pos + n < Len(s.source)
    THEN [item |-> <<s.source[s.iter_pos + n + 1]>>, iter_pos |-> s.iter_pos + n + 1]
    ELSE [item |-> "None", iter_pos |-> Len(s.source)]

\* SliceFilteredIter::next (lines 113-131)
SliceNext(s, checks) ==
    IF s.current_remaining = 0
    THEN IF s.selected_rows # <<>>
         THEN LET interval == Head(s.selected_rows)
                  hole     == Hole(interval, s.current)
                  got      == IterNth(s, hole)
              IN  IF hole < 0 /\ checks
                  THEN [s EXCEPT !.phase = "panicked", !.selected_rows = Tail(s.selected_rows)]
                  ELSE Returned([s EXCEPT !.selected_rows     = Tail(s.selected_rows),
                                          !.iter_pos          = got.iter_pos,
                                          !.current           = interval.start + interval.length,
                                          !.current_remaining = interval.length - 1,
                                          !.total             = TotalAfterItem(s.total)],
                                got.item)
         ELSE Returned(s, "None")
    ELSE LET got == IterNth(s, 0)
         IN  Returned([s EXCEPT !.current_remaining = s.current_remaining - 1,
                                !.total             = TotalAfterItem(s.total),
                                !.iter_pos          = got.iter_pos],
                      got.item)

\* SliceFilteredIter::size_hint (lines 133-136) over an exact-size source
SliceSizeHint(s) ==
    LET left == Len(s.source) - s.iter_pos
    IN  <<Min(left, s.total), Min(left, s.total)>>

SliceFilteredIterNew ==
    /\ slice.phase = "start"
    /\ \E n \in 0..MaxSourceLen :
          \E selected_rows \in SelectionsFrom(0, n, MaxIntervals) :
             slice' = SliceNew(Source(n), selected_rows)
    /\ UNCHANGED <<overflow_checks, unpack, decoder, optional, deflevels>>

SliceFilteredIterNext ==
    /\ slice.phase = "ready"
    /\ slice.nones <= MaxExtraCalls
    /\ slice' = SliceNext(slice, overflow_checks)
    /\ UNCHANGED <<overflow_checks, unpack, decoder, optional, deflevels>>

InitSlice ==
    /\ overflow_checks \in BOOLEAN
    /\ unpack = Idle
    /\ decoder = Idle
    /\ slice = [phase |-> "start"]
    /\ optional = Idle
    /\ deflevels = Idle

NextSlice == SliceFilteredIterNew \/ SliceFilteredIterNext

SpecSlice == InitSlice /\ [][NextSlice]_vars

(* Claims about SliceFilteredIter *)

\* ascending, pairwise disjoint (adjacent allowed), lengths >= 1, inside the source
RECURSIVE ValidSelectionFrom(_, _, _)
ValidSelectionFrom(rows, lo, n) ==
    \/ rows = <<>>
    \/ /\ Head(rows).start >= lo
       /\ Head(rows).length >= 1
       /\ Head(rows).start + Head(rows).length <= n
       /\ ValidSelectionFrom(Tail(rows), Head(rows).start + Head(rows).length, n)

ValidSelection(s) == ValidSelectionFrom(s.selection, 0, Len(s.source))

\* [S[i] for i in flatten(V)]
RECURSIVE Projection(_, _)
Projection(source, rows) ==
    IF rows = <<>> THEN <<>>
    ELSE [i \in 1..Head(rows).length |-> source[Head(rows).start + i]]
         \o Projection(source, Tail(rows))

\* the source position right after the last selected row (0 for no interval)
EndOfSelection(rows) ==
    IF rows = <<>> THEN 0 ELSE rows[Len(rows)].start + rows[Len(rows)].length

\* C2: for a valid selection the items returned are, in order, the items of the
\* source at the selected positions; None is returned only after all of them, and
\* once all were emitted nothing more is pulled from the source.
C2_SelectionProjection ==
    (slice.phase # "start" /\ ValidSelection(slice)) =>
        LET expected == Projection(slice.source, slice.selection)
        IN  /\ slice.phase = "ready"
            /\ Len(slice.emitted) <= Len(expected)
            /\ slice.emitted = SubSeq(expected, 1, Len(slice.emitted))
            /\ (slice.nones > 0 => slice.emitted = expected)
            /\ (Len(slice.emitted) = Len(expected)
                  => slice.iter_pos = EndOfSelection(slice.selection))

\* C2 witness: a selection of two adjacent intervals after a hole, all its rows
\* emitted and next called again
C2_Witness ==
    /\ slice.phase = "ready"
    /\ ValidSelection(slice)
    /\ Len(slice.selection) >= 2
    /\ slice.selection[1].start > 0
    /\ slice.selection[2].start = slice.selection[1].start + slice.selection[1].length
    /\ Len(slice.emitted) = SumLengths(slice.selection)
    /\ slice.nones = 2

\* C5: for a valid selection of T rows, after k items size_hint is
\* (T - k, Some(T - k)).
C5_ExactSizeHint ==
    (slice.phase # "start" /\ ValidSelection(slice)) =>
        SliceSizeHint(slice) =
            <<SumLengths(slice.selection) - Len(slice.emitted),
              SumLengths(slice.selection) - Len(slice.emitted)>>

\* C5 witness: in the middle of the second interval of a valid selection, with
\* rows of the source left after the selection
C5_Witness ==
    /\ slice.phase = "ready"
    /\ ValidSelection(slice)
    /\ Len(slice.selection) >= 2
    /\ slice.selected_rows = SubSeq(slice.selection, 3, Len(slice.selection))
    /\ slice.current_remaining > 0
    /\ Len(slice.source) > EndOfSelection(slice.selection)
    /\ SliceSizeHint(slice)[1] > 0

-----------------------------------------------------------------------------
(* OptionalValues: utils.rs 54-79 *)

\* longest validity sequence
MaxValidityLen == 4
\* longest values sequence
MaxValuesLen == 3

\* the validity sequences B: every boolean sequence of up to MaxValidityLen items
ValiditySeqs == UNION {[1..n -> BOOLEAN] : n \in 0..MaxValidityLen}

\* the values sequence X of n non-null items: 200, 201, ...
Values(n) == [i \in 1..n |-> 200 + (i - 1)]

\* OptionalValues::new (lines 60-62) over fresh iterators of the two sequences
OptionalNew(validity, values) ==
    [phase        |-> "ready",
     validity     |-> validity,
     values       |-> values,
     validity_pos |-> 0,
     values_pos   |-> 0,
     items        |-> <<>>,
     nones        |-> 0]

\* OptionalValues::next reading a value before it looks at the validity bit
OptionalNextEager(o) ==
    IF o.validity_pos >= Len(o.validity)
    THEN [o EXCEPT !.nones = o.nones + 1]
    ELSE LET x    == o.validity[o.validity_pos + 1]
             have == o.values_pos < Len(o.values)
         IN  [o EXCEPT !.validity_pos = o.validity_pos + 1,
                       !.values_pos   = IF have THEN o.values_pos + 1 ELSE o.values_pos,
                       !.items        = Append(o.items,
                                               IF x /\ have THEN <<o.values[o.values_pos + 1]>>
                                               ELSE "None")]

\* OptionalValues::next (lines 69-73): self.validity.next().map(|x| if x
\* { self.values.next() } else { None }); an item is "None" or <<value>>
OptionalNext(o) ==
    IF o.validity_pos >= Len(o.validity)
    THEN [o EXCEPT !.nones = o.nones + 1]
    ELSE LET x    == o.validity[o.validity_pos + 1]
             have == o.values_pos < Len(o.values)
         IN  IF x
             THEN [o EXCEPT !.validity_pos = o.validity_pos + 1,
                            !.values_pos   = IF have THEN o.values_pos + 1 ELSE o.values_pos,
                            !.items        = Append(o.items,
                                                    IF have THEN <<o.values[o.values_pos + 1]>>
                                                    ELSE "None")]
             ELSE [o EXCEPT !.validity_pos = o.validity_pos + 1,
                            !.items        = Append(o.items, "None")]

\* OptionalValues::size_hint (lines 76-78): self.validity.size_hint()
OptionalSizeHint(o) ==
    <<Len(o.validity) - o.validity_pos, Len(o.validity) - o.validity_pos>>

OptionalValuesNew ==
    /\ optional.phase = "start"
    /\ \E validity \in ValiditySeqs, n \in 0..MaxValuesLen :
          optional' = OptionalNew(validity, Values(n))
    /\ UNCHANGED <<overflow_checks, unpack, decoder, slice, deflevels>>

OptionalValuesNext ==
    /\ optional.phase = "ready"
    /\ optional.nones <= MaxExtraCalls
    /\ optional' = OptionalNext(optional)
    /\ UNCHANGED <<overflow_checks, unpack, decoder, slice, deflevels>>

InitOptional ==
    /\ overflow_checks \in BOOLEAN
    /\ unpack = Idle
    /\ decoder = Idle
    /\ slice = Idle
    /\ optional = [phase |-> "start"]
    /\ deflevels = Idle

NextOptional == OptionalValuesNew \/ OptionalValuesNext

SpecOptional == InitOptional /\ [][NextOptional]_vars

(* Claims about OptionalValues *)

\* count(B[0..i), true)
RECURSIVE CountTrue(_, _)
CountTrue(B, i) == IF i = 0 THEN 0 ELSE CountTrue(B, i - 1) + (IF B[i] THEN 1 ELSE 0)

\* C3: when the values sequence has an item for every true entry of the validity
\* sequence, the i-th item is Some(next unconsumed value) for a true entry and
\* absent for a false one, a false entry consumes no value, and None comes after
\* exactly len(B) items.
C3_OptionalMerge ==
    (optional.phase = "ready"
       /\ CountTrue(optional.validity, Len(optional.validity)) <= Len(optional.values)) =>
        /\ Len(optional.items) <= Len(optional.validity)
        /\ (optional.nones > 0 => Len(optional.items) = Len(optional.validity))
        /\ \A i \in 1..Len(optional.items) :
              optional.items[i] =
                  IF optional.validity[i]
                  THEN <<optional.values[CountTrue(optional.validity, i)]>>
                  ELSE "None"
        /\ optional.values_pos = CountTrue(optional.validity, Len(optional.items))

\* C3 witness: a false entry between two true ones, all items and a None returned
C3_Witness ==
    /\ optional.phase = "ready"
    /\ Len(optional.validity) >= 3
    /\ optional.validity[1] /\ ~optional.validity[2] /\ optional.validity[3]
    /\ CountTrue(optional.validity, Len(optional.validity)) <= Len(optional.values)
    /\ Len(optional.items) = Len(optional.validity)
    /\ optional.nones > 0

-----------------------------------------------------------------------------
(* DefLevelsDecoder: utils.rs 25-49 *)

\* largest maximum definition level of a page's column
MaxDefLevel == 5
\* largest num_values of a page
MaxNumValues == 6

\* read::levels::get_bit_width: the bits needed to represent max_level
RECURSIVE get_bit_width(_)
get_bit_width(max_level) ==
    IF max_level = 0 THEN 0 ELSE 1 + get_bit_width(max_level \div 2)

\* DefLevelsDecoder::new choosing Bitmap for every level up to 1
DefLevelsNewUpToOne(page) ==
    IF page.max_def_level <= 1
    THEN [phase |-> "built", page |-> page, variant |-> "Bitmap",
          num_bits |-> 1, left |-> page.num_values]
    ELSE [phase |-> "built", page |-> page, variant |-> "Levels",
          num_bits |-> get_bit_width(page.max_def_level), left |-> page.num_values,
          max_level |-> page.max_def_level]

\* DefLevelsDecoder::new (lines 35-48): Bitmap(HybridRleIter::new(Decoder::new(
\* def_levels, 1), num_values)) or Levels(HybridRleDecoder::new(def_levels,
\* get_bit_width(max_def_level), num_values), max_def_level)
DefLevelsNew(page) ==
    IF page.max_def_level = 1
    THEN [phase |-> "built", page |-> page, variant |-> "Bitmap",
          num_bits |-> 1, left |-> page.num_values]
    ELSE [phase |-> "built", page |-> page, variant |-> "Levels",
          num_bits |-> get_bit_width(page.max_def_level), left |-> page.num_values,
          max_level |-> page.max_def_level]

\* the consumer pulls one item of the wrapped hybrid RLE iterator, which is
\* bounded by num_values
DefLevelsPulled(d) == [d EXCEPT !.left = d.left - 1]

DefLevelsDecoderNew ==
    /\ deflevels.phase = "start"
    /\ \E max_def_level \in 0..MaxDefLevel, num_values \in 0..MaxNumValues :
          deflevels' = DefLevelsNew([max_def_level |-> max_def_level,
                                     num_values    |-> num_values])
    /\ UNCHANGED <<overflow_checks, unpack, decoder, slice, optional>>

DefLevelsDecoderPull ==
    /\ deflevels.phase = "built"
    /\ deflevels.left > 0
    /\ deflevels' = DefLevelsPulled(deflevels)
    /\ UNCHANGED <<overflow_checks, unpack, decoder, slice, optional>>

InitDefLevels ==
    /\ overflow_checks \in BOOLEAN
    /\ unpack = Idle
    /\ decoder = Idle
    /\ slice = Idle
    /\ optional = Idle
    /\ deflevels = [phase |-> "start"]

NextDefLevels == DefLevelsDecoderNew \/ DefLevelsDecoderPull

SpecDefLevels == InitDefLevels /\ [][NextDefLevels]_vars

(* Claims about DefLevelsDecoder *)

\* what the variant wraps: Bitmap a width-1 iterator, Levels a decoder of the bit
\* width of the maximum level that carries that level, both bounded by num_values
VariantPayload(d) ==
    /\ d.left <= d.page.num_values
    /\ d.variant = "Bitmap" => d.num_bits = 1
    /\ d.variant = "Levels" =>
          /\ d.num_bits = get_bit_width(d.page.max_def_level)
          /\ Pow2(d.num_bits) > d.page.max_def_level
          /\ d.max_level = d.page.max_def_level

====
